---- MODULE Spec2Model ----
(***************************************************************************)
(* Model of the correlation engine of src/src/utils/calculations.ts.       *)
(*                                                                         *)
(* JavaScript numbers are IEEE-754 binary64 values.  The arithmetic of     *)
(* the engine (+, -, *, /, Math.sqrt) is modelled bit-exactly with         *)
(* round-to-nearest-even on a 53 bit significand.  Significands do not fit *)
(* the model checker's integers, so they are kept as natural numbers in    *)
(* base LimbBase, least significant limb first.                            *)
(***************************************************************************)
EXTENDS Integers, Sequences, FiniteSets, TLC

(***************************************************************************)
(* Natural numbers of any size: sequences of limbs, least significant      *)
(* first, without leading zero limbs; <<>> is 0.                           *)
(***************************************************************************)
LimbBits == 15
LimbBase == 2^LimbBits

\* the largest element of a nonempty finite set of integers
SetMax(S) == CHOOSE m \in S : \A k \in S : k <= m

\* a without its leading zero limbs
BNorm(a) ==
  IF a = <<>> THEN a
  ELSE IF a[Len(a)] # 0 THEN a
  ELSE SubSeq(a, 1, SetMax({0} \cup {i \in 1..Len(a) : a[i] # 0}))

RECURSIVE BFromInt(_)
BFromInt(n) ==
  IF n = 0 THEN <<>> ELSE <<n % LimbBase>> \o BFromInt(n \div LimbBase)

BLimb(a, i) == IF 0 < i /\ i <= Len(a) THEN a[i] ELSE 0

\* a < b for a and b of one length: at their most significant differing
\* limb
BLess(a, b) ==
  \E i \in 1..Len(a) :
    a[i] < b[i] /\ \A k \in (i + 1)..Len(a) : a[k] = b[k]

\* -1, 0 or 1 as a < b, a = b, a > b
BCmp(a, b) ==
  IF Len(a) < Len(b) THEN -1
  ELSE IF Len(a) > Len(b) THEN 1
  ELSE IF a = b THEN 0
  ELSE IF BLess(a, b) THEN -1 ELSE 1

\* the carry into limb i of the limb sums s: the one out of the nearest
\* lower limb that does not just pass a carry on
BCarry(s, i) ==
  IF \E j \in 1..(i - 1) :
       s[j] >= LimbBase /\ \A k \in (j + 1)..(i - 1) : s[k] = LimbBase - 1
  THEN 1 ELSE 0

\* the number with the limb sums s, each at most 2 * LimbBase - 2
BPropagate(s) ==
  BNorm([i \in 1..(Len(s) + 1) |->
           (BLimb(s, i) + BCarry(s, i)) % LimbBase])

BAdd(a, b) ==
  IF a = <<>> THEN b
  ELSE IF b = <<>> THEN a
  ELSE BPropagate([i \in 1..(IF Len(a) > Len(b) THEN Len(a) ELSE Len(b)) |->
                     BLimb(a, i) + BLimb(b, i)])

\* the borrow into limb i of the limb differences d: the one out of the
\* nearest lower limb that does not just pass a borrow on
BBorrow(d, i) ==
  IF \E j \in 1..(i - 1) : d[j] < 0 /\ \A k \in (j + 1)..(i - 1) : d[k] = 0
  THEN 1 ELSE 0

\* the number with the limb differences d
BSettle(d) ==
  BNorm([i \in 1..Len(d) |-> (d[i] - BBorrow(d, i) + LimbBase) % LimbBase])

\* a - b, for a >= b
BSub(a, b) ==
  IF b = <<>> THEN a ELSE BSettle([i \in 1..Len(a) |-> a[i] - BLimb(b, i)])

\* a * k, for 0 <= k < LimbBase
BMulSmall(a, k) ==
  IF a = <<>> \/ k = 0 THEN <<>>
  ELSE IF k = 1 THEN a
  ELSE BPropagate([i \in 1..(Len(a) + 1) |->
                     ((BLimb(a, i) * k) % LimbBase)
                       + ((BLimb(a, i - 1) * k) \div LimbBase)])

BShiftLimbs(a, q) == IF a = <<>> THEN <<>> ELSE [i \in 1..q |-> 0] \o a

RECURSIVE BMulFrom(_, _, _)
BMulFrom(a, b, j) ==
  IF a = <<>> \/ j > Len(b) THEN <<>>
  ELSE BAdd(BShiftLimbs(BMulSmall(a, b[j]), j - 1), BMulFrom(a, b, j + 1))

BMul(a, b) == BMulFrom(a, b, 1)

\* a * 2^n
BShl(a, n) ==
  IF a = <<>> \/ n = 0 THEN a
  ELSE BShiftLimbs(BMulSmall(a, 2^(n % LimbBits)), n \div LimbBits)

\* floor(a / (LimbBase^q * 2^s)), for s < LimbBits
BShrBy(a, q, s) ==
  IF q >= Len(a) THEN <<>>
  ELSE BNorm([i \in 1..(Len(a) - q) |->
                (a[i + q] \div 2^s)
                  + ((BLimb(a, i + q + 1) % 2^s) * 2^(LimbBits - s))])

\* floor(a / 2^n)
BShr(a, n) == BShrBy(a, n \div LimbBits, n % LimbBits)

\* number of bits of a limb n
IntBitLen(n) == Cardinality({k \in 0..(LimbBits - 1) : 2^k <= n})

\* number of bits of a: 0 for 0
BBitLen(a) ==
  IF a = <<>> THEN 0 ELSE LimbBits * (Len(a) - 1) + IntBitLen(a[Len(a)])

\* bit n of a (bit 0 is the least significant)
BBit(a, n) == (BLimb(a, n \div LimbBits + 1) \div 2^(n % LimbBits)) % 2

\* whether a is a multiple of 2^n
BLowZero(a, n) ==
  /\ \A i \in 1..(n \div LimbBits) : BLimb(a, i) = 0
  /\ BLimb(a, n \div LimbBits + 1) % 2^(n % LimbBits) = 0

\* number of trailing zero bits of a limb n # 0
IntTrailingZeros(n) == Cardinality({k \in 1..LimbBits : n % 2^k = 0})

\* number of trailing zero limbs of a # 0
BZeroLimbs(a) == Cardinality({i \in 1..Len(a) : \A j \in 1..i : a[j] = 0})

BTrailingZerosFrom(a, q) == LimbBits * q + IntTrailingZeros(a[q + 1])

\* number of trailing zero bits of a # 0
BTrailingZeros(a) == BTrailingZerosFrom(a, BZeroLimbs(a))

RECURSIVE QuotientLimb(_, _, _)
\* the largest q <= guess with b * q <= r
QuotientLimb(b, r, guess) ==
  IF BCmp(BMulSmall(b, guess), r) <= 0 THEN guess
  ELSE QuotientLimb(b, r, guess - 1)

\* the first guess of a quotient limb from the two top limbs of the dividend
GuessLimb(top, divisor) ==
  IF top \div divisor >= LimbBase THEN LimbBase - 1 ELSE top \div divisor

RECURSIVE BDivFrom(_, _, _, _)
\* the division step that found the quotient limb q of cur
BDivStep(a, b, i, st, cur, q) ==
  IF q = 0 THEN BDivFrom(a, b, i - 1, <<<<0>> \o st[1], cur>>)
  ELSE BDivFrom(a, b, i - 1, <<<<q>> \o st[1], BSub(cur, BMulSmall(b, q))>>)

\* the division step on cur, the remainder so far with limb i of a
BDivLimb(a, b, i, st, cur) ==
  BDivStep(a, b, i, st, cur,
           QuotientLimb(b, cur,
                        GuessLimb(BLimb(cur, Len(b) + 1) * LimbBase
                                    + BLimb(cur, Len(b)),
                                  b[Len(b)])))

\* long division in base LimbBase of the limbs i, i-1, .. 1 of a by b, whose
\* top limb is at least LimbBase / 2; st is <<quotient limbs, remainder>>
\* so far, with a remainder less than b
BDivFrom(a, b, i, st) ==
  IF i = 0 THEN st ELSE BDivLimb(a, b, i, st, BNorm(<<a[i]>> \o st[2]))

\* the result d of the division scaled by 2^sh, scaled back
BDivResult(d, sh) == <<BNorm(d[1]), BShr(d[2], sh)>>

\* the division of a by b from limb i of a on: the limbs above it are less
\* than b
BDivAt(a, b, sh, i) ==
  BDivResult(BDivFrom(a, b, i, <<<<>>, SubSeq(a, i + 1, Len(a))>>), sh)

\* the division of a by b, both scaled by 2^sh
BDivScaled(a, b, sh) ==
  IF Len(a) < Len(b) THEN BDivResult(<<<<>>, a>>, sh)
  ELSE BDivAt(a, b, sh, Len(a) - Len(b) + 1)

BDivModBy(a, b, sh) == BDivScaled(BShl(a, sh), BShl(b, sh), sh)

\* <<floor(a / b), a - b * floor(a / b)>>, for b # 0
BDivMod(a, b) == BDivModBy(a, b, LimbBits - IntBitLen(b[Len(b)]))

RECURSIVE IntSqrtFrom(_, _)
IntSqrtNext(t, x, y) == IF y >= x THEN x ELSE IntSqrtFrom(t, y)

\* Newton's iteration for floor(sqrt(t)) from x >= floor(sqrt(t))
IntSqrtFrom(t, x) == IntSqrtNext(t, x, (x + t \div x) \div 2)

\* floor(sqrt(t)), for 0 < t < LimbBase^2
IntSqrt(t) == IntSqrtFrom(t, LimbBase)

(***************************************************************************)
(* Square roots with remainder, by Zimmermann's "Karatsuba square root":   *)
(* for n = a3 b^3 + a2 b^2 + a1 b + a0 with digits below b and             *)
(* a3 >= b / 4, and <<s1, r1>> the root and remainder of a3 b + a2, let    *)
(* q, u be the quotient and remainder of r1 b + a1 by 2 s1; the root of n  *)
(* is s1 b + q, or one less when u b + a0 < q^2.                           *)
(***************************************************************************)
HalfBits == LimbBits - 1
HalfBase == 2^HalfBits

\* digit j of a in base HalfBase (digit 0 is the least significant)
Digit(a, j) == BLimb(BShr(a, HalfBits * j), 1) % HalfBase

\* the digits j + 1 and j of a as one number below HalfBase^2
TwoDigits(a, j) == Digit(a, j + 1) * HalfBase + Digit(a, j)

\* the root s and the remainder r once the last digit of s may be one too
\* large
IntSqrtFix(s, r) == IF r < 0 THEN <<s - 1, r + 2 * s - 1>> ELSE <<s, r>>

IntSqrtJoin(sr, a0, q, u) ==
  IntSqrtFix(sr[1] * HalfBase + q, u * HalfBase + a0 - q * q)

\* the step for b = HalfBase on integers
IntSqrtStep(sr, a1, a0) ==
  IntSqrtJoin(sr, a0, (sr[2] * HalfBase + a1) \div (2 * sr[1]),
              (sr[2] * HalfBase + a1) % (2 * sr[1]))

IntSqrtRemOf(t, s) == <<s, t - s * s>>

\* <<floor(sqrt(m)), remainder>> for HalfBase^4 / 4 <= m < HalfBase^4
SqrtRem4(m) ==
  IntSqrtStep(IntSqrtRemOf(TwoDigits(m, 2), IntSqrt(TwoDigits(m, 2))),
              Digit(m, 1), Digit(m, 0))

\* s1 b + q, less one when the remainder u b + a0 - q^2 is negative
BSqrtFix(s, rest, qq) == IF BCmp(rest, qq) < 0 THEN BSub(s, <<1>>) ELSE s

BSqrtJoin(n, sr, d) ==
  BSqrtFix(BAdd(BShl(BFromInt(sr[1]), 2 * HalfBits), d[1]),
           BAdd(BShl(d[2], 2 * HalfBits), BFromInt(TwoDigits(n, 0))),
           BMul(d[1], d[1]))

\* the step for b = HalfBase^2
BSqrtStep(n, sr) ==
  BSqrtJoin(n, sr,
            BDivMod(BAdd(BShl(BFromInt(sr[2]), 2 * HalfBits),
                         BFromInt(TwoDigits(n, 2))),
                    BFromInt(2 * sr[1])))

\* floor(sqrt(n)), for HalfBase^8 / 4 <= n < HalfBase^8
BSqrt(n) == BSqrtStep(n, SqrtRem4(BShr(n, 4 * HalfBits)))

\* bits of a binary64 significand
MantBits == 53

(***************************************************************************)
(* IEEE-754 binary64 values.  A finite number is sign * man * 2^exp with   *)
(* man odd and of at most MantBits bits (0 has sign 0); this form is       *)
(* unique, so = on finite records is === on numbers (+0 and -0 are one     *)
(* value, as they are for === and for every operation the engine applies). *)
(* A result of magnitude 2^MaxExp or more overflows to Infinity(sign).     *)
(* The nonzero numbers the engine meets on the modelled inputs stay far    *)
(* above the subnormal range, so underflow is not modelled.  Values that   *)
(* are no numbers (strings, undefined) have another kind.                  *)
(***************************************************************************)
\* finite binary64 numbers are below 2^MaxExp
MaxExp == 1024

FZero == [kind |-> "finite", sign |-> 0, man |-> <<>>, exp |-> 0]
NaN == [kind |-> "NaN", sign |-> 0, man |-> <<>>, exp |-> 0]
Infinity(sign) == [kind |-> "infinite", sign |-> sign, man |-> <<>>, exp |-> 0]
NotANumber == [kind |-> "string", sign |-> 0, man |-> <<>>, exp |-> 0]

\* typeof x === 'number' && isFinite(x)
IsFiniteNumber(x) == x.kind = "finite"

\* sign * m * 2^e for a natural m # 0 of at most MantBits bits
FCanonBy(sign, m, e, tz) ==
  IF BBitLen(m) + e > MaxExp THEN Infinity(sign)
  ELSE [kind |-> "finite", sign |-> sign, man |-> BShr(m, tz), exp |-> e + tz]

FCanon(sign, m, e) == FCanonBy(sign, m, e, BTrailingZeros(m))

\* m cut to q by dropping its low shift bits, rounded to nearest, ties to even
FRoundTo(sign, m, e, shift, q) ==
  FCanon(sign,
         IF /\ BBit(m, shift - 1) = 1
            /\ (~BLowZero(m, shift - 1) \/ BBit(q, 0) = 1)
         THEN BAdd(q, <<1>>) ELSE q,
         e + shift)

FRoundLen(sign, m, e, len) ==
  IF len <= MantBits THEN FCanon(sign, m, e)
  ELSE FRoundTo(sign, m, e, len - MantBits, BShr(m, len - MantBits))

\* the binary64 value nearest to sign * m * 2^e (ties to even)
FRound(sign, m, e) ==
  IF m = <<>> THEN FZero ELSE FRoundLen(sign, m, e, BBitLen(m))

\* the number n, an integer with |n| < 2^31
FromInt(n) ==
  IF n = 0 THEN FZero
  ELSE FCanon(IF n > 0 THEN 1 ELSE -1, BFromInt(IF n > 0 THEN n ELSE -n), 0)

FNeg(a) == [a EXCEPT !.sign = -a.sign]

\* a + b for the significands ma, mb at the common exponent e, c comparing
\* ma with mb
FAddAligned(a, b, ma, mb, e, c) ==
  IF a.sign # b.sign /\ c = 0 THEN FZero
  ELSE FRound(IF a.sign = b.sign \/ c > 0 THEN a.sign ELSE b.sign,
              IF a.sign = b.sign THEN BAdd(ma, mb)
              ELSE IF c > 0 THEN BSub(ma, mb) ELSE BSub(mb, ma),
              e)

FAddMan(a, b, ma, mb, e) == FAddAligned(a, b, ma, mb, e, BCmp(ma, mb))

FAddAt(a, b, e) ==
  FAddMan(a, b, BShl(a.man, a.exp - e), BShl(b.man, b.exp - e), e)

\* a + b with a or b not finite
FAddSpecial(a, b) ==
  IF a.kind = "NaN" \/ b.kind = "NaN" THEN NaN
  ELSE IF a.kind = "finite" THEN b
  ELSE IF b.kind = "finite" \/ a.sign = b.sign THEN a
  ELSE NaN

\* a + b
FAdd(a, b) ==
  IF a.kind # "finite" \/ b.kind # "finite" THEN FAddSpecial(a, b)
  ELSE IF a.sign = 0 THEN b
  ELSE IF b.sign = 0 THEN a
  ELSE FAddAt(a, b, IF a.exp < b.exp THEN a.exp ELSE b.exp)

\* a - b
FSub(a, b) == FAdd(a, FNeg(b))

\* a * b with a or b not finite
FMulSpecial(a, b) ==
  IF a.kind = "NaN" \/ b.kind = "NaN" \/ a.sign = 0 \/ b.sign = 0 THEN NaN
  ELSE Infinity(a.sign * b.sign)

\* a * b
FMul(a, b) ==
  IF a.kind # "finite" \/ b.kind # "finite" THEN FMulSpecial(a, b)
  ELSE IF a.sign = 0 \/ b.sign = 0 THEN FZero
  ELSE FRound(a.sign * b.sign, BMul(a.man, b.man), a.exp + b.exp)

\* q when it is exact; else q with one more low bit that marks a remainder
Sticky(q, exact) == IF exact THEN q ELSE BAdd(BMulSmall(q, 2), <<1>>)

\* the rounding of sign * q * 2^e, for a quotient or root q of more than
\* MantBits + 1 bits
FRoundSticky(sign, q, e, exact) ==
  FRound(sign, Sticky(q, exact), IF exact THEN e ELSE e - 1)

FDivRound(a, b, sh, d) ==
  FRoundSticky(a.sign * b.sign, d[1], a.exp - sh - b.exp, d[2] = <<>>)

\* a / b with the dividend scaled by 2^sh
FDivBy(a, b, sh) == FDivRound(a, b, sh, BDivMod(BShl(a.man, sh), b.man))

FDivNeed(a, b, need) == FDivBy(a, b, IF need > 0 THEN need ELSE 0)

\* a / b with a or b not finite, or b zero (a zero divisor counts as +0)
FDivSpecial(a, b) ==
  IF a.kind = "NaN" \/ b.kind = "NaN" THEN NaN
  ELSE IF a.kind = "infinite"
       THEN IF b.kind = "infinite" THEN NaN
            ELSE Infinity(IF b.sign = 0 THEN a.sign ELSE a.sign * b.sign)
  ELSE IF b.kind = "infinite" THEN FZero
  ELSE IF a.sign = 0 THEN NaN
  ELSE Infinity(a.sign)

\* a / b
FDiv(a, b) ==
  IF a.kind # "finite" \/ b.kind # "finite" \/ b.sign = 0
  THEN FDivSpecial(a, b)
  ELSE IF a.sign = 0 THEN FZero
  ELSE FDivNeed(a, b, MantBits + 3 + BBitLen(b.man) - BBitLen(a.man))

FSqrtRound(a, sh, n, root) ==
  FRoundSticky(1, root, (a.exp - sh) \div 2, BMul(root, root) = n)

FSqrtOf(a, sh, n) == FSqrtRound(a, sh, n, BSqrt(n))

\* Math.sqrt(a) with the significand scaled by 2^sh
FSqrtBy(a, sh) == FSqrtOf(a, sh, BShl(a.man, sh))

\* an even exponent, and a significand of 8 * HalfBits bits or one less
FSqrtNeed(a, need) ==
  FSqrtBy(a, IF (a.exp - need) % 2 = 0 THEN need ELSE need - 1)

\* Math.sqrt(a)
FSqrt(a) ==
  IF a.kind = "NaN" \/ a.sign < 0 THEN NaN
  ELSE IF a.kind = "infinite" THEN a
  ELSE IF a.sign = 0 THEN FZero
  ELSE FSqrtNeed(a, 8 * HalfBits - BBitLen(a.man))

\* a === b for two numbers: NaN equals nothing, itself included
FEq(a, b) == a.kind # "NaN" /\ b.kind # "NaN" /\ a = b

\* -1, 0 or 1 as a < b, a === b, a > b, for numbers a and b (not NaN)
FCmp(a, b) == FSub(a, b).sign

\* Math.min(a, b), Math.max(a, b): NaN if a or b is NaN
FMin(a, b) ==
  IF a.kind = "NaN" \/ b.kind = "NaN" THEN NaN
  ELSE IF FCmp(a, b) <= 0 THEN a ELSE b
FMax(a, b) ==
  IF a.kind = "NaN" \/ b.kind = "NaN" THEN NaN
  ELSE IF FCmp(a, b) >= 0 THEN a ELSE b

(***************************************************************************)
(* Values of the engine.  A JavaScript array is a sequence; NotAnArray is  *)
(* an argument that is no array.  A price point is a record [timestamp,    *)
(* price] or Null.  A timestamp string is modelled by its rank k >= 1 in   *)
(* the lexical order of the strings (the order Array.prototype.sort uses); *)
(* NotAString is the timestamp undefined of a point without one.  The      *)
(* input mapping is a sequence of entries [ticker, points, missing] with   *)
(* distinct tickers, in the insertion order of the keys; missing marks a   *)
(* key whose value is null or undefined, not an array.  A call that raises *)
(* returns TypeError.                                                      *)
(***************************************************************************)
Null == [null |-> TRUE]
NotAString == 0
IsString(t) == t # NotAString
Point(t, p) == [timestamp |-> t, price |-> p]
TypeError == [raised |-> "TypeError"]
NotAnArray == [i \in {0} |-> 0]

\* Array.isArray(v)
IsArray(v) == v # NotAnArray

\* the keys without the last one
KeysButLast(data) == [i \in 1..(Len(data) - 1) |-> data[i].ticker]

\* Object.keys(data)
ObjectKeys(data) == [i \in 1..Len(data) |-> data[i].ticker]

\* numbers.filter(num => typeof num === 'number' && isFinite(num))
FilterFinite(numbers) == SelectSeq(numbers, IsFiniteNumber)

RECURSIVE SumFrom(_, _, _)
\* numbers.reduce((acc, num) => acc + num, acc) from index i on
SumFrom(numbers, i, acc) ==
  IF i > Len(numbers) THEN acc
  ELSE SumFrom(numbers, i + 1, FAdd(acc, numbers[i]))

\* calculateAverage once validNumbers is filtered
AverageOfValid(validNumbers) ==
  IF Len(validNumbers) = 0 THEN FZero
  ELSE FDiv(SumFrom(validNumbers, 1, FZero), FromInt(Len(validNumbers)))

\* the average if the sum were divided by the original length
AverageOverAll(numbers) ==
  IF ~IsArray(numbers) THEN FZero
  ELSE IF Len(numbers) = 0 THEN FZero
  ELSE IF Len(FilterFinite(numbers)) = 0 THEN FZero
  ELSE FDiv(SumFrom(FilterFinite(numbers), 1, FZero), FromInt(Len(numbers)))

calculateAverage(numbers) ==
  IF ~IsArray(numbers) THEN FZero
  ELSE IF Len(numbers) = 0 THEN FZero
  ELSE AverageOfValid(FilterFinite(numbers))

\* Math.pow(d, 2) is the square of d, correctly rounded
Squared(d) == FMul(d, d)

\* validNumbers.map(num => Math.pow(num - mean, 2))
SquaredDifferences(validNumbers, mean) ==
  [i \in 1..Len(validNumbers) |-> Squared(FSub(validNumbers[i], mean))]

\* calculateStandardDeviation once validNumbers is filtered
DeviationOfValid(validNumbers) ==
  IF Len(validNumbers) = 0 THEN FZero
  ELSE FSqrt(calculateAverage(
               SquaredDifferences(validNumbers,
                                  calculateAverage(validNumbers))))

calculateStandardDeviation(numbers) ==
  IF ~IsArray(numbers) THEN FZero
  ELSE IF Len(numbers) = 0 THEN FZero
  ELSE DeviationOfValid(FilterFinite(numbers))

\* the indices of the pairs with two finite numbers
ValidPairs(x, y) ==
  SelectSeq([i \in 1..Len(x) |-> i],
            LAMBDA i : IsFiniteNumber(x[i]) /\ IsFiniteNumber(y[i]))

\* Math.max(-1, Math.min(1, correlation))
Clamp(correlation) == FMax(FromInt(-1), FMin(FromInt(1), correlation))

\* the denominator without its square root
DenominatorWithoutRoot(sumSquaredX, sumSquaredY) ==
  FMul(sumSquaredX, sumSquaredY)

\* Math.sqrt(sumSquaredX * sumSquaredY)
Denominator(sumSquaredX, sumSquaredY) == FSqrt(FMul(sumSquaredX, sumSquaredY))

\* if (denominator === 0) return 0; else the clamped numerator / denominator
Correlation(numerator, denominator) ==
  IF denominator = FZero THEN FZero ELSE Clamp(FDiv(numerator, denominator))

\* the sum over i of diffA[i] * diffB[i], accumulated from 0 in index order
SumOfProducts(diffA, diffB) ==
  SumFrom([i \in 1..Len(diffA) |-> FMul(diffA[i], diffB[i])], 1, FZero)

\* the loop over validX: numerator, sumSquaredX and sumSquaredY
CorrelationOfDiffs(diffX, diffY) ==
  Correlation(SumOfProducts(diffX, diffY),
              Denominator(SumOfProducts(diffX, diffX),
                          SumOfProducts(diffY, diffY)))

\* the values themselves in place of their differences from the mean
DifferencesFromZero(valid, mean) == valid

\* valid[i] - mean for every i
Differences(valid, mean) == [i \in 1..Len(valid) |-> FSub(valid[i], mean)]

CorrelationOfValid(validX, validY) ==
  CorrelationOfDiffs(Differences(validX, calculateAverage(validX)),
                     Differences(validY, calculateAverage(validY)))

CorrelationOfPairs(x, y, validPairs) ==
  IF Len(validPairs) < 2 THEN FZero
  ELSE CorrelationOfValid([k \in 1..Len(validPairs) |-> x[validPairs[k]]],
                          [k \in 1..Len(validPairs) |-> y[validPairs[k]]])

calculatePearsonCorrelation(x, y) ==
  IF ~IsArray(x) \/ ~IsArray(y) THEN FZero
  ELSE IF Len(x) # Len(y) \/ Len(x) = 0 THEN FZero
  ELSE CorrelationOfPairs(x, y, ValidPairs(x, y))

\* new Set: add t to the insertion-ordered set
SetAdd(set, t) ==
  IF \E i \in 1..Len(set) : set[i] = t THEN set ELSE Append(set, t)

RECURSIVE AddTimestamps(_, _, _)
\* points.forEach(point => { if (point && typeof point.timestamp ===
\* 'string') allTimestamps.add(point.timestamp) }) from index i on
AddTimestamps(set, points, i) ==
  IF i > Len(points) THEN set
  ELSE IF points[i] # Null /\ IsString(points[i].timestamp)
       THEN AddTimestamps(SetAdd(set, points[i].timestamp), points, i + 1)
       ELSE AddTimestamps(set, points, i + 1)

RECURSIVE AllTimestamps(_, _, _)
\* the Set allTimestamps after the tickers k, k+1, ..
AllTimestamps(data, k, set) ==
  IF k > Len(data) THEN set
  ELSE IF ~data[k].missing
       THEN AllTimestamps(data, k + 1, AddTimestamps(set, data[k].points, 1))
       ELSE AllTimestamps(data, k + 1, set)

\* data[ticker].some(..) if any price counted
HasPointAt(entry, timestamp) ==
  /\ ~entry.missing
  /\ \E i \in 1..Len(entry.points) :
       /\ entry.points[i] # Null
       /\ entry.points[i].timestamp = timestamp

\* data[ticker] && data[ticker].some(point => point && point.timestamp ===
\* timestamp && typeof point.price === 'number' && isFinite(point.price))
HasFinitePriceAt(entry, timestamp) ==
  /\ ~entry.missing
  /\ \E i \in 1..Len(entry.points) :
       /\ entry.points[i] # Null
       /\ entry.points[i].timestamp = timestamp
       /\ IsFiniteNumber(entry.points[i].price)

RECURSIVE Sort(_)
\* Array.prototype.sort() on distinct timestamp strings
Sort(seq) ==
  IF seq = <<>> THEN <<>>
  ELSE LET m == CHOOSE i \in 1..Len(seq) : \A j \in 1..Len(seq) : seq[i] <= seq[j]
       IN  <<seq[m]>> \o Sort(SubSeq(seq, 1, m - 1) \o SubSeq(seq, m + 1, Len(seq)))

\* commonTimestamps if the filter over the tickers were left out
CommonTimestampsUnfiltered(data) == Sort(AllTimestamps(data, 1, <<>>))

\* commonTimestamps if a timestamp of some ticker were enough
CommonTimestampsOfSome(data) ==
  Sort(SelectSeq(AllTimestamps(data, 1, <<>>),
                 LAMBDA timestamp :
                   \E k \in 1..Len(data) :
                     HasFinitePriceAt(data[k], timestamp)))

CommonTimestamps(data) ==
  Sort(SelectSeq(AllTimestamps(data, 1, <<>>),
                 LAMBDA timestamp :
                   \A k \in 1..Len(data) :
                     HasFinitePriceAt(data[k], timestamp)))

\* the index of points.find(p => p && p.timestamp === timestamp), 0 if none
FindPoint(points, timestamp) ==
  IF \E i \in 1..Len(points) :
       points[i] # Null /\ points[i].timestamp = timestamp
  THEN CHOOSE i \in 1..Len(points) :
         /\ points[i] # Null /\ points[i].timestamp = timestamp
         /\ \A j \in 1..(i - 1) :
              ~(points[j] # Null /\ points[j].timestamp = timestamp)
  ELSE 0

\* point ? point.price : 0, for the point at index (none at index 0)
PriceOf(points, index) == IF index = 0 THEN FZero ELSE points[index].price

PriceAt(points, timestamp) == PriceOf(points, FindPoint(points, timestamp))

\* alignedData[ticker]
AlignedPrices(points, commonTimestamps) ==
  FilterFinite([k \in 1..Len(commonTimestamps) |->
                  PriceAt(points, commonTimestamps[k])])

EmptyResult == [matrix |-> <<>>, standardDeviations |-> <<>>, dataPoints |-> 0]

\* matrix[i][j] if the diagonal were computed like the other entries
MatrixEntryComputed(alignedData, i, j) ==
  calculatePearsonCorrelation(alignedData[i], alignedData[j])

\* matrix[i][j]
MatrixEntry(alignedData, i, j) ==
  IF i = j THEN FromInt(1)
  ELSE calculatePearsonCorrelation(alignedData[i], alignedData[j])

\* alignedData, by the index of the ticker in tickers
AlignedData(data, commonTimestamps) ==
  [i \in 1..Len(data) |-> AlignedPrices(data[i].points, commonTimestamps)]

\* the index of ticker t in tickers
IndexOf(tickers, t) == CHOOSE i \in 1..Len(tickers) : tickers[i] = t

\* the returned object if standardDeviations were left empty
ResultWithoutDeviations(tickers, alignedData, dataPoints) ==
  [matrix |->
     [i \in 1..Len(tickers) |->
        [j \in 1..Len(tickers) |-> MatrixEntry(alignedData, i, j)]],
   standardDeviations |-> <<>>,
   dataPoints |-> dataPoints]

\* the returned object
Result(tickers, alignedData, dataPoints) ==
  [matrix |->
     [i \in 1..Len(tickers) |->
        [j \in 1..Len(tickers) |-> MatrixEntry(alignedData, i, j)]],
   standardDeviations |->
     [t \in {tickers[i] : i \in 1..Len(tickers)} |->
        calculateStandardDeviation(alignedData[IndexOf(tickers, t)])],
   dataPoints |-> dataPoints]

\* calculateCorrelationMatrix if the arrays were aligned before the common
\* timestamps are counted
MatrixOverAligned(data, tickers, commonTimestamps) ==
  IF Len(tickers) = 0 THEN EmptyResult
  ELSE IF \E k \in 1..Len(data) : data[k].missing THEN TypeError
  ELSE IF Len(commonTimestamps) < 2 THEN EmptyResult
  ELSE Result(tickers, AlignedData(data, commonTimestamps),
              Len(commonTimestamps))

\* calculateCorrelationMatrix if one common timestamp were enough
MatrixOverOne(data, tickers, commonTimestamps) ==
  IF Len(tickers) = 0 THEN EmptyResult
  ELSE IF Len(commonTimestamps) < 1 THEN EmptyResult
  ELSE Result(tickers, AlignedData(data, commonTimestamps),
              Len(commonTimestamps))

\* data[ticker].find raises when data[ticker] is null or undefined
MatrixOver(data, tickers, commonTimestamps) ==
  IF Len(tickers) = 0 THEN EmptyResult
  ELSE IF Len(commonTimestamps) < 2 THEN EmptyResult
  ELSE IF \E k \in 1..Len(data) : data[k].missing THEN TypeError
  ELSE Result(tickers, AlignedData(data, commonTimestamps),
              Len(commonTimestamps))

calculateCorrelationMatrix(data) ==
  MatrixOver(data, ObjectKeys(data), CommonTimestamps(data))

(***************************************************************************)
(* alignStockData.  Its result, a mapping from the retained tickers to     *)
(* their price arrays, is [aligned |-> the sequence of the entries         *)
(* [ticker, prices] in the insertion order of the keys].                   *)
(***************************************************************************)
\* point.timestamp raises on a null point of a ticker that has an array
HasNullPoint(stocksData) ==
  \E k \in 1..Len(stocksData) :
    /\ ~stocksData[k].missing
    /\ \E i \in 1..Len(stocksData[k].points) : stocksData[k].points[i] = Null

RECURSIVE AddEveryTimestamp(_, _, _)
\* points.forEach(point => allTimestamps.add(point.timestamp)) from index i
AddEveryTimestamp(set, points, i) ==
  IF i > Len(points) THEN set
  ELSE AddEveryTimestamp(SetAdd(set, points[i].timestamp), points, i + 1)

RECURSIVE EveryTimestamp(_, _, _)
\* the Set allTimestamps after the tickers k, k+1, ..; stocksData[ticker]?.
\* skips a ticker without an array
EveryTimestamp(stocksData, k, set) ==
  IF k > Len(stocksData) THEN set
  ELSE IF stocksData[k].missing
       THEN EveryTimestamp(stocksData, k + 1, set)
       ELSE EveryTimestamp(stocksData, k + 1,
                           AddEveryTimestamp(set, stocksData[k].points, 1))

\* the timestamps in the insertion order of the Set, without the sort
UnsortedTimestamps(allTimestamps) == allTimestamps

\* Array.from(allTimestamps).sort(): the strings in their order, then
\* undefined
SortedTimestamps(allTimestamps) ==
  Sort(SelectSeq(allTimestamps, IsString))
    \o SelectSeq(allTimestamps, LAMBDA t : ~IsString(t))

\* the index of the last point at the timestamp in place of the first
FindLastDataPoint(stockData, timestamp) ==
  IF \E i \in 1..Len(stockData) : stockData[i].timestamp = timestamp
  THEN CHOOSE i \in 1..Len(stockData) :
         /\ stockData[i].timestamp = timestamp
         /\ \A j \in (i + 1)..Len(stockData) :
              stockData[j].timestamp # timestamp
  ELSE 0

\* the index of stockData.find(point => point.timestamp === timestamp), 0
\* if none
FindDataPoint(stockData, timestamp) ==
  IF \E i \in 1..Len(stockData) : stockData[i].timestamp = timestamp
  THEN CHOOSE i \in 1..Len(stockData) :
         /\ stockData[i].timestamp = timestamp
         /\ \A j \in 1..(i - 1) : stockData[j].timestamp # timestamp
  ELSE 0

\* alignedData[ticker]: dataPoint.price is pushed for every sorted timestamp
\* that has a dataPoint
PushedPrices(stockData, sortedTimestamps) ==
  LET found == SelectSeq(sortedTimestamps,
                         LAMBDA t : FindDataPoint(stockData, t) # 0)
  IN  [k \in 1..Len(found) |->
         stockData[FindDataPoint(stockData, found[k])].price]

\* stocksData[ticker] || []
StockDataOf(entry) == IF entry.missing THEN <<>> ELSE entry.points

\* alignedData before the tickers with fewer than 2 prices are deleted
AlignedBy(stocksData, sortedTimestamps) ==
  [k \in 1..Len(stocksData) |->
     [ticker |-> stocksData[k].ticker,
      prices |-> PushedPrices(StockDataOf(stocksData[k]), sortedTimestamps)]]

\* the deletion if one price were enough
WithoutEmpty(alignedData) ==
  SelectSeq(alignedData, LAMBDA e : Len(e.prices) >= 1)

\* if (alignedData[ticker].length < 2) delete alignedData[ticker]
WithoutInsufficient(alignedData) ==
  SelectSeq(alignedData, LAMBDA e : Len(e.prices) >= 2)

alignStockData(stocksData) ==
  IF Len(ObjectKeys(stocksData)) = 0 THEN [aligned |-> <<>>]
  ELSE IF HasNullPoint(stocksData) THEN TypeError
  ELSE [aligned |->
          WithoutInsufficient(
            AlignedBy(stocksData,
                      SortedTimestamps(EveryTimestamp(stocksData, 1, <<>>))))]

(***************************************************************************)
(* The inputs the functions are run on.                                    *)
(***************************************************************************)
MaxTs == 3
MaxPrice == 3
MaxPairPrice == 2
MaxPoints == 3
MaxFactor == 5
MaxCalls == 2

Tickers == <<"AAPL", "GOOGL", "MSFT">>
Timestamps == 1..MaxTs

RECURSIVE Ascending(_)
\* the elements of a set of timestamps in ascending order
Ascending(S) ==
  IF S = {} THEN <<>>
  ELSE LET m == CHOOSE t \in S : \A u \in S : t <= u
       IN  <<m>> \o Ascending(S \ {m})

SeqsUpTo(S, n) == UNION {[1..k -> S] : k \in 0..n}

Entry(ticker, points) ==
  [ticker |-> ticker, points |-> points, missing |-> FALSE]

\* a key whose value is undefined
Missing(ticker) == [ticker |-> ticker, points |-> <<>>, missing |-> TRUE]

\* Observations: AAPL follows 100, 102, 101, GOOGL is twice AAPL and MSFT
\* does not move; each ticker is observed on any subset of the timestamps.
ObservedPrice(i, t) ==
  LET aapl == IF t % 3 = 1 THEN 100 ELSE IF t % 3 = 2 THEN 102 ELSE 101
  IN  IF i = 1 THEN aapl ELSE IF i = 2 THEN 2 * aapl ELSE 50

ObservedSeries(i, S) ==
  LET ts == Ascending(S)
  IN  [k \in 1..Len(ts) |-> Point(ts[k], FromInt(ObservedPrice(i, ts[k])))]

ObservedInputs ==
  UNION {{[i \in 1..n |-> Entry(Tickers[i], ObservedSeries(i, f[i]))] :
            f \in [1..n -> SUBSET Timestamps]} : n \in 0..Len(Tickers)}

\* the points of a ticker observed on the timestamps 1..n at these prices
Series(prices) == [k \in 1..Len(prices) |-> Point(k, prices[k])]

Numbers(prices) == [k \in 1..Len(prices) |-> FromInt(prices[k])]

PriceSeries(prices) == Series(Numbers(prices))

\* Two tickers observed on all the timestamps, with any prices.
PairInputs ==
  {<<Entry(Tickers[1], PriceSeries(v)), Entry(Tickers[2], PriceSeries(w))>> :
     v \in [Timestamps -> 1..MaxPairPrice],
     w \in [Timestamps -> 1..MaxPairPrice]}

\* Two tickers observed on all the timestamps, the second a multiple of the
\* first (f * v) or its reflection (c - v).
Multiple(f, v) == [k \in 1..Len(v) |-> f * v[k]]
Reflection(c, v) == [k \in 1..Len(v) |-> c - v[k]]

LinearInputs ==
  {<<Entry(Tickers[1], PriceSeries(v)),
     Entry(Tickers[2], PriceSeries(Multiple(f, v)))>> :
     v \in [Timestamps -> 1..MaxPrice], f \in 1..MaxFactor} \cup
  {<<Entry(Tickers[1], PriceSeries(v)),
     Entry(Tickers[2], PriceSeries(Reflection(2 * MaxPrice, v)))>> :
     v \in [Timestamps -> 1..MaxPrice]}

\* A ticker that stays at a tenth, beside a ticker with any prices.
Tenth == FDiv(FromInt(1), FromInt(10))

ConstantInputs ==
  {<<Entry(Tickers[1], Series([k \in Timestamps |-> Tenth])),
     Entry(Tickers[2], PriceSeries(w))>> :
     w \in [Timestamps -> 1..MaxPairPrice]}

\* Two tickers observed on the timestamps 1 and 2 at prices near the
\* largest binary64 numbers.
Huge(k) == [kind |-> "finite", sign |-> 1, man |-> <<1>>, exp |-> MaxExp - k]

HugeArrays == [1..2 -> {Huge(1), Huge(2)}]

HugeInputs ==
  {<<Entry(Tickers[1], Series(v)), Entry(Tickers[2], Series(w))>> :
     v \in HugeArrays, w \in HugeArrays}

\* Raw series: points in any order, with repeated timestamps, prices that
\* are NaN or no numbers, points without a timestamp and null entries;
\* alone, before a ticker observed on the timestamps 1 and 2, or after one.
RawPoints ==
  {Point(t, FromInt(p)) : t \in 1..2, p \in 1..2} \cup
  {Point(1, NaN), Point(2, NotANumber), Point(NotAString, FromInt(1)), Null}

RawSeries == SeqsUpTo(RawPoints, MaxPoints)

RawInputs ==
  {<<Entry(Tickers[1], s)>> : s \in RawSeries} \cup
  {<<Entry(Tickers[1], s), Entry(Tickers[2], PriceSeries(<<1, 2>>))>> :
     s \in RawSeries} \cup
  {<<Entry(Tickers[1], PriceSeries(<<2, 1>>)), Entry(Tickers[2], s)>> :
     s \in RawSeries}

\* A key without an array, alone or beside a ticker observed on the
\* timestamps 1 and 2.
MissingInputs ==
  {<<Missing(Tickers[1])>>,
   <<Missing(Tickers[1]), Entry(Tickers[2], PriceSeries(<<1, 2>>))>>,
   <<Entry(Tickers[1], PriceSeries(<<1, 2>>)), Missing(Tickers[2])>>}

Inputs ==
  ObservedInputs \cup PairInputs \cup LinearInputs \cup ConstantInputs
    \cup HugeInputs \cup RawInputs \cup MissingInputs

\* Arrays of numbers: of any length, NaN among them; with an infinite
\* entry or one that is no number; near the largest numbers; the vector
\* 2, 4, 4, 4, 5, 5, 7, 9; and three tenths.
NumberArrays ==
  SeqsUpTo({FromInt(1), FromInt(2), NaN}, MaxPoints) \cup HugeArrays \cup
  {<<FromInt(1), Infinity(1), FromInt(3)>>, <<NotANumber, FromInt(2)>>,
   <<Infinity(-1)>>, Numbers(<<2, 4, 4, 4, 5, 5, 7, 9>>),
   [k \in Timestamps |-> Tenth]}

\* Arguments of a direct call of calculatePearsonCorrelation: two such
\* arrays, or NotAnArray; and an array with its largest multiple.
ArrayPairs ==
  (NumberArrays \X NumberArrays) \cup
  {<<NotAnArray, NotAnArray>>, <<NotAnArray, Numbers(<<1, 2>>)>>,
   <<Numbers(<<1, 2>>), NotAnArray>>} \cup
  {<<Numbers(v), Numbers(Multiple(MaxFactor, v))>> :
     v \in [Timestamps -> 1..MaxPrice]}

(***************************************************************************)
(* The calls as a state machine.  op is the function that is called, data  *)
(* its input mapping, x and y or numbers its arrays, and results the       *)
(* values its invocations returned so far, the latest last.  A function    *)
(* is invoked up to MaxCalls times on its arguments.                       *)
(***************************************************************************)
VARIABLES op, data, x, y, numbers, results

vars == <<op, data, x, y, numbers, results>>

(***************************************************************************)
(* The state of the hook useStockData: its four React states, the ref      *)
(* isMountedRef.current, and the requests of fetchStocks and               *)
(* fetchStockData that await their response.  stocks is modelled by the    *)
(* set of its tickers.  issued counts the requests started, outcome keeps  *)
(* the response of every request of fetchStockData, and last describes the *)
(* latest step with the state it started from.                             *)
(***************************************************************************)
VARIABLES stocks, stocksData, loading, error, isMounted, pending, issued,
          outcome, last

hookVars ==
  <<stocks, stocksData, loading, error, isMounted, pending, issued, outcome,
    last>>

\* error: null
NoError == "null"

\* the mapping {}
NoData == [t \in {} |-> <<>>]

\* no response yet
NoOutcome == [status |-> "none", data |-> NoData]

\* the React states at the start of a step
Before ==
  [stocks |-> stocks, stocksData |-> stocksData, loading |-> loading,
   error |-> error]

\* the step named action of request id, taken from the current state
Step(action, id) ==
  [action |-> action, id |-> id, mounted |-> isMounted, before |-> Before]

\* the hook before its first render; the functions of calculations.ts do
\* not use it
HookIdle ==
  /\ stocks = {} /\ stocksData = NoData /\ loading = FALSE
  /\ error = NoError /\ isMounted = TRUE /\ pending = {} /\ issued = 0
  /\ outcome = <<>> /\ last = Step("none", 0)

\* the mapping if the null points were removed from the input arrays
DataWithoutNull(mapping) ==
  [k \in 1..Len(mapping) |->
     [mapping[k] EXCEPT !.points = SelectSeq(@, LAMBDA p : p # Null)]]

\* What a call leaves of the mapping it was given: both functions sort,
\* filter, fill and delete from only the Set, the arrays and the objects
\* they created themselves, and only read data and stocksData.
DataAfterCalculate(mapping) == mapping
DataAfterAlign(mapping) == mapping

Init ==
  /\ \/ /\ op \in {"calculateCorrelationMatrix", "alignStockData"}
        /\ data \in Inputs
        /\ x = <<>> /\ y = <<>> /\ numbers = <<>>
     \/ /\ op = "calculatePearsonCorrelation"
        /\ data = <<>> /\ numbers = <<>>
        /\ \E pair \in ArrayPairs : x = pair[1] /\ y = pair[2]
     \/ /\ op \in {"calculateStandardDeviation", "calculateAverage"}
        /\ data = <<>> /\ x = <<>> /\ y = <<>>
        /\ numbers \in NumberArrays \cup {NotAnArray}
  /\ results = <<>>
  /\ HookIdle

\* an invocation whose result depended on the invocations before it
CalculateCounting ==
  /\ op = "calculateCorrelationMatrix" /\ Len(results) < MaxCalls
  /\ results' =
       Append(results,
              [calculateCorrelationMatrix(data)
                 EXCEPT !.dataPoints = @ + Len(results)])
  /\ data' = DataAfterCalculate(data)
  /\ UNCHANGED <<op, x, y, numbers>>
  /\ UNCHANGED hookVars

Calculate ==
  /\ op = "calculateCorrelationMatrix" /\ Len(results) < MaxCalls
  /\ results' = Append(results, calculateCorrelationMatrix(data))
  /\ data' = DataAfterCalculate(data)
  /\ UNCHANGED <<op, x, y, numbers>>
  /\ UNCHANGED hookVars

Align ==
  /\ op = "alignStockData" /\ Len(results) < MaxCalls
  /\ results' = Append(results, alignStockData(data))
  /\ data' = DataAfterAlign(data)
  /\ UNCHANGED <<op, x, y, numbers>>
  /\ UNCHANGED hookVars

Correlate ==
  /\ op = "calculatePearsonCorrelation" /\ Len(results) < MaxCalls
  /\ results' = Append(results, calculatePearsonCorrelation(x, y))
  /\ UNCHANGED <<op, data, x, y, numbers>>
  /\ UNCHANGED hookVars

Deviate ==
  /\ op = "calculateStandardDeviation" /\ Len(results) < MaxCalls
  /\ results' = Append(results, calculateStandardDeviation(numbers))
  /\ UNCHANGED <<op, data, x, y, numbers>>
  /\ UNCHANGED hookVars

Average ==
  /\ op = "calculateAverage" /\ Len(results) < MaxCalls
  /\ results' = Append(results, calculateAverage(numbers))
  /\ UNCHANGED <<op, data, x, y, numbers>>
  /\ UNCHANGED hookVars

Next == Calculate \/ Align \/ Correlate \/ Deviate \/ Average

Spec == Init /\ [][Next]_vars

\* the value the latest invocation returned
result == results[Len(results)]

\* the state after calculateCorrelationMatrix(data) returned result
Returned == op = "calculateCorrelationMatrix" /\ Len(results) > 0

\* the state after calculatePearsonCorrelation(x, y) returned result
Correlated == op = "calculatePearsonCorrelation" /\ Len(results) > 0

\* the state after calculateStandardDeviation(numbers) returned result
Deviated == op = "calculateStandardDeviation" /\ Len(results) > 0

\* the state after calculateAverage(numbers) returned result
Averaged == op = "calculateAverage" /\ Len(results) > 0

\* the state after alignStockData(data) returned result
Aligned == op = "alignStockData" /\ Len(results) > 0

(***************************************************************************)
(* The properties of calculateCorrelationMatrix.                           *)
(***************************************************************************)
\* the returned value is an object { matrix, standardDeviations, dataPoints }
HasMatrix == Returned /\ result # TypeError

\* the result is not the empty one
NonEmpty == HasMatrix /\ result # EmptyResult

\* -1 <= v <= 1 for a number v
InRange(v) ==
  /\ v.kind = "finite"
  /\ FCmp(FromInt(-1), v) <= 0
  /\ FCmp(v, FromInt(1)) <= 0

\* C1: for every input mapping the returned matrix is symmetric,
\* matrix[i][j] == matrix[j][i] for all row and column indices i, j.
Symmetric ==
  HasMatrix =>
    \A i \in DOMAIN result.matrix : \A j \in DOMAIN result.matrix :
      FEq(result.matrix[i][j], result.matrix[j][i])

\* C2: every diagonal entry matrix[i][i] of a result is exactly 1, also for
\* a ticker whose prices are constant.
DiagonalIsOne ==
  HasMatrix =>
    \A i \in DOMAIN result.matrix : FEq(result.matrix[i][i], FromInt(1))

\* AAPL, GOOGL and MSFT observed on all the timestamps: MSFT does not move,
\* its diagonal entry is 1 and its row is 0 elsewhere
DiagonalOfConstant ==
  /\ NonEmpty /\ data \in ObservedInputs
  /\ Len(result.matrix) = 3 /\ result.dataPoints = MaxTs
  /\ result.matrix[3] = <<FZero, FZero, FromInt(1)>>

\* C3: every entry of the returned matrix, and every value returned by
\* calculatePearsonCorrelation, lies in [-1, 1].
WithinRange ==
  /\ HasMatrix =>
       \A i \in DOMAIN result.matrix : \A j \in DOMAIN result.matrix :
         InRange(result.matrix[i][j])
  /\ Correlated => InRange(result)

\* the finite prices a ticker has at the timestamp string t
FinitePricesAt(entry, t) ==
  IF entry.missing THEN {}
  ELSE {entry.points[i].price : i \in
          {i \in 1..Len(entry.points) :
             /\ entry.points[i] # Null
             /\ entry.points[i].timestamp = t
             /\ IsFiniteNumber(entry.points[i].price)}}

\* the timestamp strings at which a ticker has a finite price
FiniteTimestamps(entry) ==
  IF entry.missing THEN {}
  ELSE {entry.points[i].timestamp : i \in
          {i \in 1..Len(entry.points) :
             /\ entry.points[i] # Null
             /\ IsString(entry.points[i].timestamp)
             /\ IsFiniteNumber(entry.points[i].price)}}

\* the timestamps at which every ticker of the set K has a finite price
CommonOf(mapping, K) ==
  {t \in UNION {FiniteTimestamps(mapping[k]) : k \in K} :
     \A k \in K : t \in FiniteTimestamps(mapping[k])}

\* the timestamps common to all the tickers of the mapping
Common(mapping) == CommonOf(mapping, 1..Len(mapping))

\* C4: the result is exactly { matrix: [], standardDeviations: {},
\* dataPoints: 0 } when the mapping has zero tickers and whenever fewer than
\* 2 timestamps are common to all tickers; it is returned, not raised.
EmptyWhenInsufficient ==
  Returned /\ (Len(data) = 0 \/ Cardinality(Common(data)) < 2)
    => result = EmptyResult

\* two tickers share exactly one timestamp and the result is empty
EmptyOnOneCommon ==
  /\ Returned /\ Len(data) = 2 /\ Cardinality(Common(data)) = 1
  /\ result = EmptyResult

\* ticker k has no timestamp in common with the other tickers, which share
\* at least 2 timestamps among themselves
Isolated(mapping, k) ==
  /\ Len(mapping) >= 2
  /\ FiniteTimestamps(mapping[k]) # {}
  /\ \A j \in (1..Len(mapping)) \ {k} :
       FiniteTimestamps(mapping[k]) \cap FiniteTimestamps(mapping[j]) = {}
  /\ Cardinality(CommonOf(mapping, (1..Len(mapping)) \ {k})) >= 2

\* C5 as stated: a ticker without a timestamp in common with the others is
\* left out of standardDeviations and of the matrix, whose size is the
\* number of retained tickers, and dataPoints is the number of timestamps
\* common to the retained tickers.
IsolatedTickerDropped ==
  \A k \in 1..Len(data) :
    Returned /\ Isolated(data, k) =>
      /\ result # EmptyResult
      /\ Len(result.matrix) = Len(data) - 1
      /\ DOMAIN result.standardDeviations =
           {data[j].ticker : j \in (1..Len(data)) \ {k}}
      /\ result.dataPoints =
           Cardinality(CommonOf(data, (1..Len(data)) \ {k}))

\* C5: when a ticker has no timestamp in common with the others, no
\* timestamp is common to all tickers and the whole result is empty: no
\* ticker is retained.
IsolatedTickerEmptiesResult ==
  \A k \in 1..Len(data) :
    Returned /\ Isolated(data, k) => result = EmptyResult

\* AAPL and GOOGL share 2 or more timestamps, MSFT is observed on none of
\* them, and the result is empty
IsolatedThird ==
  /\ Returned /\ Len(data) = 3 /\ Isolated(data, 3)
  /\ result = EmptyResult

\* C6: the common timestamps are exactly the timestamp strings at which
\* every ticker has a point with a finite price, and in a non-empty result
\* dataPoints is their number.
CommonIsIntersection ==
  Returned =>
    /\ {CommonTimestamps(data)[n] : n \in 1..Len(CommonTimestamps(data))}
         = Common(data)
    /\ Len(CommonTimestamps(data)) = Cardinality(Common(data))
    /\ NonEmpty => result.dataPoints = Cardinality(Common(data))

\* a ticker with a price that is no finite number or a point without a
\* timestamp string, beside a ticker observed on t1 and t2, and two common
\* timestamps
CommonAmongInvalid ==
  /\ NonEmpty /\ Len(data) = 2 /\ result.dataPoints = 2
  /\ \E i \in 1..Len(data[1].points) :
       /\ data[1].points[i] # Null
       /\ \/ ~IsFiniteNumber(data[1].points[i].price)
          \/ ~IsString(data[1].points[i].timestamp)

\* the vectors with, for every common timestamp in ascending order, one of
\* the finite prices the ticker has at it
PricesAtCommon(mapping, k) ==
  LET common == Ascending(Common(mapping))
  IN  {v \in [1..Len(common) -> UNION {FinitePricesAt(mapping[k], t) : t \in Common(mapping)}] :
         \A n \in 1..Len(common) : v[n] \in FinitePricesAt(mapping[k], common[n])}

\* C7: in a non-empty result the aligned price vector of every ticker has
\* exactly dataPoints entries and its entry k is a finite price of the
\* ticker at the k-th common timestamp in ascending order.
AlignedByIndex ==
  NonEmpty =>
    \A k \in 1..Len(data) :
      /\ Len(AlignedData(data, CommonTimestamps(data))[k]) = result.dataPoints
      /\ AlignedData(data, CommonTimestamps(data))[k] \in PricesAtCommon(data, k)

\* C8: in a non-empty result row i and column j belong to the i-th and
\* j-th key of the mapping, and for i # j matrix[i][j] is the Pearson
\* correlation of the prices of the two tickers at the common timestamps.
EntriesArePearson ==
  NonEmpty =>
    /\ Len(result.matrix) = Len(data)
    /\ \A i \in 1..Len(data) :
         /\ Len(result.matrix[i]) = Len(data)
         /\ \A j \in (1..Len(data)) \ {i} :
              \E u \in PricesAtCommon(data, i) :
                \E v \in PricesAtCommon(data, j) :
                  result.matrix[i][j] = calculatePearsonCorrelation(u, v)

\* the floating tolerance of the comparisons, 1e-9
Tolerance == FDiv(FromInt(1), FromInt(10^9))

\* |a - b| <= Tolerance for two numbers
Near(a, b) ==
  /\ a.kind = "finite" /\ b.kind = "finite"
  /\ FCmp(FSub(a, b), Tolerance) <= 0
  /\ FCmp(FSub(b, a), Tolerance) <= 0

\* two tickers observed on the same 2 or more timestamps, one point each,
\* at finite prices below 2^(MaxExp / 8)
OnSameTimestamps(mapping) ==
  /\ Len(mapping) = 2
  /\ ~mapping[1].missing /\ ~mapping[2].missing
  /\ Len(mapping[1].points) >= 2
  /\ Len(mapping[1].points) = Len(mapping[2].points)
  /\ \A k \in 1..2 : \A n \in 1..Len(mapping[k].points) :
       /\ mapping[k].points[n] # Null
       /\ IsString(mapping[k].points[n].timestamp)
       /\ mapping[k].points[n].timestamp = mapping[1].points[n].timestamp
       /\ IsFiniteNumber(mapping[k].points[n].price)
       /\ BBitLen(mapping[k].points[n].price.man)
            + mapping[k].points[n].price.exp <= MaxExp \div 8
       /\ \A m \in 1..(n - 1) :
            mapping[k].points[m].timestamp # mapping[k].points[n].timestamp

\* the prices of the first ticker are not all the same
NonConstant(mapping) ==
  \E n \in 1..Len(mapping[1].points) :
    mapping[1].points[n].price # mapping[1].points[1].price

\* the second ticker is f times the first at every timestamp
Proportional(mapping, f) ==
  \A n \in 1..Len(mapping[1].points) :
    mapping[2].points[n].price
      = FMul(FromInt(f), mapping[1].points[n].price)

\* the second ticker is c minus the first at every timestamp
Reflected(mapping, c) ==
  \A n \in 1..Len(mapping[1].points) :
    mapping[2].points[n].price
      = FSub(FromInt(c), mapping[1].points[n].price)

ConstantAtCommon(mapping, k) ==
  Cardinality(UNION {FinitePricesAt(mapping[k], t) : t \in Common(mapping)})
    = 1

\* C11: in a non-empty result a ticker whose prices at the common
\* timestamps are all equal has correlation exactly 0 with every other
\* ticker, along its row and its column, and standard deviation 0.
ConstantTickerIsZero ==
  NonEmpty =>
    \A k \in 1..Len(data) :
      ConstantAtCommon(data, k) =>
        /\ FEq(result.standardDeviations[data[k].ticker], FZero)
        /\ \A j \in (1..Len(data)) \ {k} :
             /\ FEq(result.matrix[k][j], FZero)
             /\ FEq(result.matrix[j][k], FZero)

\* C12: in a non-empty result standardDeviations[ticker] is the population
\* standard deviation of the prices of the ticker at exactly the common
\* timestamps, one price for each.
DeviationsOverCommon ==
  NonEmpty =>
    \A k \in 1..Len(data) :
      \E v \in PricesAtCommon(data, k) :
        result.standardDeviations[data[k].ticker]
          = calculateStandardDeviation(v)

NeverRaises ==
  Returned =>
    /\ result # TypeError
    /\ DOMAIN result = {"matrix", "standardDeviations", "dataPoints"}

\* a result for a mapping with a key that has no array
ReturnedOnMissing ==
  /\ Returned /\ Len(data) = 2
  /\ data[1].missing \/ data[2].missing
  /\ result = EmptyResult

\* C16: dataPoints == 0 if and only if matrix is empty if and only if
\* standardDeviations is empty; otherwise dataPoints >= 2.
EmptyOrPopulated ==
  HasMatrix =>
    /\ result.dataPoints = 0 <=> Len(result.matrix) = 0
    /\ Len(result.matrix) = 0 <=> DOMAIN result.standardDeviations = {}
    /\ result.dataPoints = 0 \/ result.dataPoints >= 2

\* a populated result with the least number of data points
PopulatedWithTwo ==
  /\ HasMatrix /\ result.dataPoints = 2
  /\ Len(result.matrix) = 2
  /\ DOMAIN result.standardDeviations = {data[1].ticker, data[2].ticker}

\* C17: for every input every matrix entry and every standardDeviations
\* value of the result is a finite number.
AllFinite ==
  HasMatrix =>
    /\ \A i \in DOMAIN result.matrix : \A j \in DOMAIN result.matrix :
         IsFiniteNumber(result.matrix[i][j])
    /\ \A t \in DOMAIN result.standardDeviations :
         IsFiniteNumber(result.standardDeviations[t])

\* |a - b| <= Tolerance * b for two numbers, b >= 0
NearRelative(a, b) ==
  /\ a.kind = "finite" /\ b.kind = "finite"
  /\ FCmp(FSub(a, b), FMul(Tolerance, b)) <= 0
  /\ FCmp(FSub(b, a), FMul(Tolerance, b)) <= 0

RECURSIVE Total(_)
\* the sum of the numbers of a sequence, added from left to right
Total(seq) ==
  IF Len(seq) = 0 THEN FZero
  ELSE FAdd(Total(SubSeq(seq, 1, Len(seq) - 1)), seq[Len(seq)])

\* the entries of an array that are finite numbers
Cleaned(array) ==
  IF IsArray(array) THEN SelectSeq(array, IsFiniteNumber) ELSE <<>>

\* the mean of a non-empty sequence of finite numbers
Mean(seq) == FDiv(Total(seq), FromInt(Len(seq)))

\* the sum of the squared deviations of the numbers from their mean
SquaredDeviations(seq) ==
  Total([i \in 1..Len(seq) |->
           FMul(FSub(seq[i], Mean(seq)), FSub(seq[i], Mean(seq)))])

\* C18: calculateStandardDeviation is the population standard deviation of
\* the finite entries: its square times their number N is the sum of their
\* squared deviations from the mean (to the floating tolerance); it is 0
\* for an empty or fully non-finite input and 2 for [2,4,4,4,5,5,7,9].
PopulationDeviation ==
  Deviated =>
    /\ Len(Cleaned(numbers)) = 0 => FEq(result, FZero)
    /\ numbers = Numbers(<<2, 4, 4, 4, 5, 5, 7, 9>>) => FEq(result, FromInt(2))
    /\ Len(Cleaned(numbers)) > 0 =>
         NearRelative(FMul(FMul(result, result),
                           FromInt(Len(Cleaned(numbers)))),
                      SquaredDeviations(Cleaned(numbers)))

\* C19: calculateAverage drops every entry that is no finite number,
\* returns 0 when nothing is left, also for an empty input or one that is
\* no sequence, and otherwise the sum of the cleaned entries divided by
\* their number.
AverageOfCleaned ==
  Averaged =>
    result = IF Len(Cleaned(numbers)) = 0 THEN FZero
             ELSE Mean(Cleaned(numbers))

\* the average of an array of which an entry was dropped and others kept
AveragedAfterDrop ==
  /\ Averaged /\ IsArray(numbers)
  /\ Len(Cleaned(numbers)) > 0
  /\ Len(Cleaned(numbers)) < Len(numbers)
  /\ result = Mean(Cleaned(numbers))
  /\ result # FZero

\* the index positions at which both arrays hold a finite number
PairedIndices(a, b) ==
  {i \in 1..Len(a) : IsFiniteNumber(a[i]) /\ IsFiniteNumber(b[i])}

\* the values of array a at the paired index positions are all equal
ConstantOnPairs(a, b) ==
  \A i \in PairedIndices(a, b) : \A j \in PairedIndices(a, b) : a[i] = a[j]

\* C20: calculatePearsonCorrelation returns 0, without raising, when the
\* arrays differ in length or are empty, when fewer than 2 index positions
\* hold two finite numbers, and when one of the series filtered to those
\* positions is constant.
ZeroWhenDegenerate ==
  Correlated =>
    /\ result # TypeError
    /\ \/ ~IsArray(x) \/ ~IsArray(y)
       \/ Len(x) # Len(y)
       \/ Len(x) = 0
       \/ Cardinality(PairedIndices(x, y)) < 2
       \/ ConstantOnPairs(x, y)
       \/ ConstantOnPairs(y, x)
       => FEq(result, FZero)

(***************************************************************************)
(* The properties of alignStockData.                                       *)
(***************************************************************************)
\* alignStockData returned a mapping
HasAligned == Aligned /\ result # TypeError

\* the timestamps of the points of a ticker, NotAString for a point without
\* a timestamp string
TimestampsOf(entry) ==
  IF entry.missing THEN {}
  ELSE {entry.points[i].timestamp : i \in 1..Len(entry.points)}

\* the distinct timestamps of a ticker: the strings in ascending order, a
\* missing timestamp last
TimestampOrder(entry) ==
  Ascending(TimestampsOf(entry) \ {NotAString})
    \o (IF NotAString \in TimestampsOf(entry) THEN <<NotAString>> ELSE <<>>)

\* the prices of the points of a ticker at timestamp t
PricesOfPointsAt(entry, t) ==
  {entry.points[i].price :
     i \in {i \in 1..Len(entry.points) : entry.points[i].timestamp = t}}

\* the price of the first point of a ticker at timestamp t
FirstPriceAt(entry, t) ==
  entry.points[CHOOSE i \in 1..Len(entry.points) :
                 /\ entry.points[i].timestamp = t
                 /\ \A j \in 1..(i - 1) : entry.points[j].timestamp # t].price

\* the index in the mapping of the ticker of a returned entry
KeyIndex(mapping, ticker) ==
  CHOOSE k \in 1..Len(mapping) : mapping[k].ticker = ticker

\* C21: for every ticker alignStockData retains, the vector lists the
\* prices of the ticker in ascending order of their timestamps, whatever
\* the order of the input points, and a timestamp the ticker lacks
\* contributes no entry.
AlignedAscending ==
  HasAligned =>
    \A n \in 1..Len(result.aligned) :
      LET entry == data[KeyIndex(data, result.aligned[n].ticker)]
      IN  /\ Len(result.aligned[n].prices) = Len(TimestampOrder(entry))
          /\ \A m \in 1..Len(TimestampOrder(entry)) :
               result.aligned[n].prices[m]
                 \in PricesOfPointsAt(entry, TimestampOrder(entry)[m])

\* a ticker given with its later point first and a point without timestamp
\* last, beside a ticker with one entry less
AlignedFromUnsorted ==
  /\ HasAligned /\ Len(result.aligned) = 2
  /\ Len(data[2].points) = 3
  /\ data[2].points[1].timestamp > data[2].points[2].timestamp
  /\ IsString(data[2].points[2].timestamp)
  /\ ~IsString(data[2].points[3].timestamp)
  /\ data[2].points[1].price # data[2].points[2].price
  /\ IsFiniteNumber(data[2].points[2].price)
  /\ result.aligned[2].prices
       = <<data[2].points[2].price, data[2].points[1].price,
           data[2].points[3].price>>
  /\ Len(result.aligned[1].prices) = 2

\* C22: every vector alignStockData returns has 2 or more entries, a
\* ticker is in the result if and only if it is an input ticker whose
\* aligned vector has 2 or more entries, and zero tickers give an empty
\* mapping.
AlignedAtLeastTwo ==
  HasAligned =>
    /\ \A n \in 1..Len(result.aligned) : Len(result.aligned[n].prices) >= 2
    /\ {result.aligned[n].ticker : n \in 1..Len(result.aligned)}
         = {data[k].ticker : k \in
              {k \in 1..Len(data) : Len(TimestampOrder(data[k])) >= 2}}
    /\ Len(data) = 0 => result.aligned = <<>>

\* of two input tickers one is retained and one, with a single entry, is
\* dropped
AlignedOneDropped ==
  /\ HasAligned /\ Len(data) = 2 /\ Len(result.aligned) = 1
  /\ \E k \in 1..2 : Len(TimestampOrder(data[k])) = 1

\* C23: alignStockData never raises and excludes malformed entries: for
\* point sequences with null entries, timestamps that are no strings and
\* prices that are no finite numbers it returns a mapping whose vectors
\* hold finite numbers only.
AlignedOnlyFinite ==
  Aligned =>
    /\ result # TypeError
    /\ \A n \in 1..Len(result.aligned) :
         \A m \in 1..Len(result.aligned[n].prices) :
           IsFiniteNumber(result.aligned[n].prices[m])

(***************************************************************************)
(* Further properties of calculateCorrelationMatrix.                       *)
(***************************************************************************)
\* C24: the substitution of price 0 for a lookup that finds no point is
\* never reached: for every input and every common timestamp the lookup
\* finds a point of every ticker.
LookupFindsPoint ==
  Returned =>
    \A k \in 1..Len(data) : \A n \in 1..Len(CommonTimestamps(data)) :
      /\ ~data[k].missing
      /\ FindPoint(data[k].points, CommonTimestamps(data)[n]) # 0

\* a non-empty result for a ticker with a null point, a point without
\* timestamp string or a price that is no finite number
LookupAmongInvalid ==
  /\ NonEmpty /\ Len(data) = 2
  /\ \E i \in 1..Len(data[1].points) :
       \/ data[1].points[i] = Null
       \/ ~IsString(data[1].points[i].timestamp)
       \/ ~IsFiniteNumber(data[1].points[i].price)
  /\ \A n \in 1..Len(CommonTimestamps(data)) :
       FindPoint(data[1].points, CommonTimestamps(data)[n]) # 0

\* C25: a non-empty result covers all input tickers: the matrix has T rows
\* of T entries and standardDeviations has exactly the T input tickers as
\* keys, T being the number of keys of the mapping.
CoversAllTickers ==
  NonEmpty =>
    /\ Len(result.matrix) = Len(data)
    /\ \A i \in 1..Len(result.matrix) : Len(result.matrix[i]) = Len(data)
    /\ DOMAIN result.standardDeviations
         = {data[k].ticker : k \in 1..Len(data)}
    /\ Cardinality(DOMAIN result.standardDeviations) = Len(data)

\* a non-empty result for three tickers
CoversThree ==
  /\ NonEmpty /\ Len(data) = 3
  /\ Len(result.matrix) = 3
  /\ DOMAIN result.standardDeviations = {"AAPL", "GOOGL", "MSFT"}

(***************************************************************************)
(* Repeated timestamps in alignStockData.                                  *)
(***************************************************************************)
\* C26: a timestamp that several points of a ticker share contributes one
\* entry, the price of the first of them; the vector has as many entries
\* as the ticker has distinct timestamps, and a ticker whose points all
\* share one timestamp is dropped.
AlignedFirstOfRepeated ==
  HasAligned =>
    /\ \A n \in 1..Len(result.aligned) :
         LET entry == data[KeyIndex(data, result.aligned[n].ticker)]
         IN  result.aligned[n].prices
               = [m \in 1..Cardinality(TimestampsOf(entry)) |->
                    FirstPriceAt(entry, TimestampOrder(entry)[m])]
    /\ \A k \in 1..Len(data) :
         Cardinality(TimestampsOf(data[k])) = 1 =>
           \A n \in 1..Len(result.aligned) :
             result.aligned[n].ticker # data[k].ticker

\* a retained ticker with two points at one timestamp and different prices
AlignedRepeated ==
  /\ HasAligned /\ Len(data) = 1 /\ Len(result.aligned) = 1
  /\ Len(data[1].points) = 3
  /\ data[1].points[1].timestamp = data[1].points[2].timestamp
  /\ data[1].points[1].price # data[1].points[2].price
  /\ result.aligned[1].prices
       = <<data[1].points[1].price, data[1].points[3].price>>

(***************************************************************************)
(* The hook useStockData as a state machine.  A call of fetchStocks or     *)
(* fetchStockData runs up to its await in one step and from the arrival of *)
(* its response to its end in another; calls overlap when a call starts    *)
(* while requests are pending.  The handlers and the interval that call    *)
(* the functions of the hook belong to the component, so no call starts    *)
(* after the unmount.                                                      *)
(***************************************************************************)
MaxRequests == 3

HookTickers == {"AAPL", "GOOGL"}

\* what stockApi.getStocks resolves to, or its rejection
StocksResponses ==
  {[status |-> "ok", stocks |-> S, message |-> NoError] :
     S \in (SUBSET HookTickers) \ {{}}} \cup
  {[status |-> "invalid", stocks |-> {},
    message |-> "Invalid stocks data format"],
   [status |-> "empty", stocks |-> {}, message |-> "No valid stocks found"],
   [status |-> "failed", stocks |-> {},
    message |-> "Failed to fetch stocks list"]}

\* what stockApi.getMultipleStocksData resolves to for a request, or its
\* rejection: every requested ticker with no array, an empty series or a
\* series that only this response holds
DataResponses(request) ==
  {[status |-> "failed", data |-> NoData]} \cup
  {[status |-> "ok", data |-> d] :
     d \in [request.tickers -> {NotAnArray, <<>>, <<request.id>>}]}

\* Array.isArray(stockData) && stockData.length > 0
HasSeries(stockData) ==
  IF IsArray(stockData) THEN Len(stockData) > 0 ELSE FALSE

\* hasData
HasData(responseData) ==
  \E t \in DOMAIN responseData : HasSeries(responseData[t])

\* validData
ValidData(responseData) ==
  [t \in {u \in DOMAIN responseData : HasSeries(responseData[u])} |->
     responseData[t]]

\* the React states after fetchStocks resumed with the response, mounted
AfterStocksResponse(state, response) ==
  IF response.status = "ok"
  THEN [state EXCEPT !.stocks = response.stocks, !.loading = FALSE]
  ELSE [state EXCEPT !.error = response.message, !.loading = FALSE]

\* the React states after fetchStockData resumed with the response, mounted
AfterDataResponse(state, response) ==
  IF response.status = "failed"
  THEN [state EXCEPT !.error = "Failed to fetch stock data",
                     !.loading = FALSE]
  ELSE IF ~HasData(response.data)
  THEN [state EXCEPT
          !.error = "No data available for the selected stocks and time frame",
          !.loading = FALSE]
  ELSE [state EXCEPT !.stocksData = ValidData(response.data),
                     !.loading = FALSE]

\* a resumed call that set its states whether mounted or not
ResumedUnguarded(mounted, state, after) == after

\* every set.. of a resumed call is under if (isMountedRef.current)
Resumed(mounted, state, after) == IF mounted THEN after ELSE state

\* the React states become those of the record
SetStates(state) ==
  /\ stocks' = state.stocks
  /\ stocksData' = state.stocksData
  /\ loading' = state.loading
  /\ error' = state.error

\* the error of the validation of fetchStockData, NoError if it passes
ValidationError(tickers, minutes, validTickers) ==
  IF tickers = {} THEN "Please select at least one stock"
  ELSE IF minutes <= 0 THEN "Invalid time frame"
  ELSE IF validTickers = {} THEN "No valid stocks selected"
  ELSE NoError

\* the state once the effect of the first render has called fetchStocks
HookInit ==
  /\ op = "useStockData" /\ data = <<>> /\ x = <<>> /\ y = <<>>
  /\ numbers = <<>> /\ results = <<>>
  /\ stocks = {} /\ stocksData = NoData /\ loading = TRUE
  /\ error = NoError /\ isMounted = TRUE
  /\ pending = {[kind |-> "stocks", id |-> 1, tickers |-> {}]}
  /\ issued = 1 /\ outcome = <<NoOutcome>>
  /\ last = [action |-> "fetchStocks", id |-> 1, mounted |-> TRUE,
             before |-> [stocks |-> {}, stocksData |-> NoData,
                         loading |-> FALSE, error |-> NoError]]

\* fetchStocks, called by refetchStocks, up to its await
FetchStocks ==
  /\ isMounted /\ issued < MaxRequests
  /\ loading' = TRUE /\ error' = NoError
  /\ pending' = pending \cup
                  {[kind |-> "stocks", id |-> issued + 1, tickers |-> {}]}
  /\ issued' = issued + 1
  /\ outcome' = Append(outcome, NoOutcome)
  /\ last' = Step("fetchStocks", issued + 1)
  /\ UNCHANGED <<stocks, stocksData, isMounted>>
  /\ UNCHANGED vars

\* fetchStocks from the arrival of its response to its end
FetchStocksDone ==
  \E request \in pending : \E response \in StocksResponses :
    /\ request.kind = "stocks"
    /\ SetStates(Resumed(isMounted, Before,
                         AfterStocksResponse(Before, response)))
    /\ pending' = pending \ {request}
    /\ last' = Step("fetchStocks done", request.id)
    /\ UNCHANGED <<isMounted, issued, outcome>>
    /\ UNCHANGED vars

\* fetchStockData(tickers, minutes) up to its return or its await
FetchStockData ==
  \E tickers \in SUBSET HookTickers : \E minutes \in {0, 60} :
    LET validTickers == tickers \cap stocks
        invalid == ValidationError(tickers, minutes, validTickers)
    IN  /\ isMounted
        /\ IF invalid # NoError
           THEN /\ error' = invalid
                /\ last' = Step("fetchStockData returned", 0)
                /\ UNCHANGED <<loading, pending, issued, outcome>>
           ELSE /\ issued < MaxRequests
                /\ loading' = TRUE /\ error' = NoError
                /\ pending' = pending \cup
                                {[kind |-> "data", id |-> issued + 1,
                                  tickers |-> validTickers]}
                /\ issued' = issued + 1
                /\ outcome' = Append(outcome, NoOutcome)
                /\ last' = Step("fetchStockData", issued + 1)
        /\ UNCHANGED <<stocks, stocksData, isMounted>>
        /\ UNCHANGED vars

\* fetchStockData from the arrival of its response to its end
FetchStockDataDone ==
  \E request \in pending : \E response \in DataResponses(request) :
    /\ request.kind = "data"
    /\ SetStates(Resumed(isMounted, Before,
                         AfterDataResponse(Before, response)))
    /\ pending' = pending \ {request}
    /\ outcome' = [outcome EXCEPT ![request.id] = response]
    /\ last' = Step("fetchStockData done", request.id)
    /\ UNCHANGED <<isMounted, issued>>
    /\ UNCHANGED vars

ClearError ==
  /\ isMounted /\ error # NoError
  /\ error' = NoError
  /\ last' = Step("clearError", 0)
  /\ UNCHANGED <<stocks, stocksData, loading, isMounted, pending, issued,
                 outcome>>
  /\ UNCHANGED vars

ClearData ==
  /\ isMounted /\ (stocksData # NoData \/ error # NoError)
  /\ stocksData' = NoData /\ error' = NoError
  /\ last' = Step("clearData", 0)
  /\ UNCHANGED <<stocks, loading, isMounted, pending, issued, outcome>>
  /\ UNCHANGED vars

\* the cleanup of the effect: isMountedRef.current = false
Unmount ==
  /\ isMounted
  /\ isMounted' = FALSE
  /\ last' = Step("unmount", 0)
  /\ UNCHANGED <<stocks, stocksData, loading, error, pending, issued,
                 outcome>>
  /\ UNCHANGED vars

HookNext ==
  \/ FetchStocks \/ FetchStocksDone \/ FetchStockData
  \/ FetchStockDataDone \/ ClearError \/ ClearData \/ Unmount

HookSpec == HookInit /\ [][HookNext]_<<vars, hookVars>>

(***************************************************************************)
(* The properties of useStockData.                                         *)
(***************************************************************************)
\* the requests of fetchStockData that have their response
Answered == {i \in 1..Len(outcome) : outcome[i].status # "none"}

\* a request of fetchStockData awaits its response
DataPending == \E request \in pending : request.kind = "data"

\* the latest step was the end of a call of fetchStockData
DataDone == last.action = "fetchStockData done"

\* the response of that call held a non-empty series
DataArrived ==
  /\ outcome[last.id].status = "ok"
  /\ HasData(outcome[last.id].data)

\* C27: while the component is mounted, loading is true whenever a request
\* of fetchStocks, refetchStocks or fetchStockData is in flight, for every
\* interleaving of calls and completions.
LoadingWhilePending == isMounted /\ pending # {} => loading = TRUE

\* C28: when calls of fetchStockData overlap, after all of them have
\* completed stocksData holds the data of the most recently issued call,
\* in whatever order the responses arrive.
LatestCallWins ==
  /\ isMounted /\ DataDone /\ ~DataPending
  /\ outcome[SetMax(Answered)].status = "ok"
  /\ HasData(outcome[SetMax(Answered)].data)
  => stocksData = ValidData(outcome[SetMax(Answered)].data)

\* C29: once the component has unmounted, the completion of a request of
\* fetchStocks or fetchStockData, with a response or a failure, changes
\* none of stocks, stocksData, error and loading.
UnmountedUnchanged ==
  last.action \in {"fetchStocks done", "fetchStockData done"}
    /\ ~last.mounted => Before = last.before

\* a response with data arrived after the unmount and stocksData is
\* still empty
ArrivedAfterUnmount ==
  /\ DataDone /\ ~last.mounted /\ DataArrived
  /\ stocksData = NoData /\ loading = TRUE

\* C30 as stated: when a request of fetchStockData completes while mounted,
\* a response with a non-empty series makes stocksData the response
\* restricted to the tickers with non-empty series and error stays null;
\* with no data or a failure stocksData is kept and error is a message;
\* loading ends false.
DataCompletionClearsError ==
  DataDone /\ last.mounted =>
    /\ loading = FALSE
    /\ IF DataArrived
       THEN /\ stocksData = ValidData(outcome[last.id].data)
            /\ error = NoError
       ELSE /\ stocksData = last.before.stocksData
            /\ error # NoError

\* what a completion of fetchStockData while mounted does guarantee: a
\* response with a non-empty series makes stocksData the
\* response restricted to the tickers with non-empty series, so stocksData
\* never holds an empty series, and leaves error as it was; with no data or
\* a failure stocksData is kept and error is a message; loading ends false.
DataCompletion ==
  /\ \A t \in DOMAIN stocksData : HasSeries(stocksData[t])
  /\ DataDone /\ last.mounted =>
       /\ loading = FALSE
       /\ IF DataArrived
          THEN /\ stocksData = ValidData(outcome[last.id].data)
               /\ \A t \in DOMAIN outcome[last.id].data :
                    t \in DOMAIN stocksData
                      <=> HasSeries(outcome[last.id].data[t])
               /\ error = last.before.error
          ELSE /\ stocksData = last.before.stocksData
               /\ error # NoError

\* a response with one empty and one non-empty series arrived while an
\* error set after the start of the request was shown
DataArrivedBesideError ==
  /\ DataDone /\ last.mounted /\ DataArrived
  /\ Cardinality(DOMAIN outcome[last.id].data) = 2
  /\ Cardinality(DOMAIN stocksData) = 1
  /\ error # NoError

====
